---- MODULE Spec2Model ----
(***************************************************************************)
(* A model of the Device client of goadb (device.go): command-line        *)
(* preparation, the device-pinned dial, the shell/root/remount/sync        *)
(* operations and the cancellable RunCommandContext with its watcher       *)
(* goroutine.                                                              *)
(*                                                                         *)
(* Strings are sequences of characters.  A literal piece of a format      *)
(* string ("shell:", "host:", "kill ") is one element of the sequence;     *)
(* the characters the code inspects (whitespace, the double quote, the     *)
(* path separator) are always single elements.                             *)
(***************************************************************************)
EXTENDS Integers, Sequences, FiniteSets, TLC

(***************************************************************************)
(* Bounds                                                                  *)
(***************************************************************************)
MaxCmdLen == 2
MaxArgLen == 2
MaxArgs == 2
MaxOut == 1

(***************************************************************************)
(* Characters                                                              *)
(***************************************************************************)
DQ == "\""
SP == " "
NL == "\n"
SLASH == "/"
Whitespace == {" ", "\t", "\n", "\r"}

CmdChars == {"a", SP}
ArgChars == {"b", SP, DQ}

RECURSIVE SeqsUpTo(_, _)
SeqsUpTo(S, n) ==
  IF n = 0 THEN {<<>>}
  ELSE LET shorter == SeqsUpTo(S, n - 1)
       IN  shorter \cup {Append(s, x) : s \in {q \in shorter : Len(q) = n - 1}, x \in S}

(***************************************************************************)
(* Errors: a kind, a message and the chain of wrappers added on the way   *)
(* out (outermost first).                                                  *)
(***************************************************************************)
Nil == [kind |-> "nil", msg |-> <<>>, wraps |-> <<>>]

Errorf(kind, msg) == [kind |-> kind, msg |-> msg, wraps |-> <<>>]

AssertionErrorf(msg) == Errorf("AssertionError", msg)

\* fmt.Errorf("<prefix>: %w", err)
FmtErrorf(prefix, err) == [err EXCEPT !.wraps = <<[by |-> "fmt", op |-> prefix]>> \o @]

\* errors.WrapErrf(err, ...): keeps the kind of err
WrapErrf(err, text) == [err EXCEPT !.wraps = <<[by |-> "Err", op |-> text]>> \o @]

\* wrapClientError(err, c, operation): nil stays nil, otherwise the error is
\* wrapped with the operation name, keeping its kind
wrapClientError(err, operation) ==
  IF err = Nil THEN Nil
  ELSE [err EXCEPT !.wraps = <<[by |-> "Err", op |-> operation]>> \o @]

(***************************************************************************)
(* String helpers                                                          *)
(***************************************************************************)
\* isBlank: the string matches ^\s*$
isBlank(str) == \A i \in 1..Len(str) : str[i] \in Whitespace

\* containsWhitespace: some rune of the string is a space
containsWhitespace(str) == \E i \in 1..Len(str) : str[i] \in Whitespace

\* strings.ContainsRune
ContainsRune(str, r) == \E i \in 1..Len(str) : str[i] = r

\* strings.Join
RECURSIVE Join(_, _)
Join(elems, sep) ==
  IF Len(elems) = 0 THEN <<>>
  ELSE IF Len(elems) = 1 THEN elems[1]
  ELSE elems[1] \o sep \o Join(Tail(elems), sep)

\* the %d verb
RECURSIVE Itoa(_)
Itoa(n) ==
  LET digit(d) == CASE d = 0 -> "0" [] d = 1 -> "1" [] d = 2 -> "2" [] d = 3 -> "3"
                    [] d = 4 -> "4" [] d = 5 -> "5" [] d = 6 -> "6" [] d = 7 -> "7"
                    [] d = 8 -> "8" [] d = 9 -> "9"
  IN  IF n < 10 THEN <<digit(n)>> ELSE Itoa(n \div 10) \o <<digit(n % 10)>>

\* strings.TrimSpace
RECURSIVE TrimLeft(_)
TrimLeft(str) ==
  IF Len(str) > 0 /\ str[1] \in Whitespace THEN TrimLeft(Tail(str)) ELSE str

RECURSIVE TrimRight(_)
TrimRight(str) ==
  IF Len(str) > 0 /\ str[Len(str)] \in Whitespace
  THEN TrimRight(SubSeq(str, 1, Len(str) - 1)) ELSE str

TrimSpace(str) == TrimRight(TrimLeft(str))

\* components := strings.Split(cmd, "/"); components[len(components)-1]
LastComponent(str) ==
  LET seps == {i \in 1..Len(str) : str[i] = SLASH}
      last == IF seps = {} THEN 0 ELSE CHOOSE i \in seps : \A j \in seps : j <= i
  IN  SubSeq(str, last + 1, Len(str))

(***************************************************************************)
(* prepareCommandLine                                                      *)
(***************************************************************************)
ParseErrorMsg(i, arg) ==
  <<"arg at index ">> \o Itoa(i) \o <<" contains an invalid double quote: ">> \o arg

\* mutation: every argument is quoted, whitespace or not
RECURSIVE prepareLoop_QuoteAll(_, _)
prepareLoop_QuoteAll(a, i) ==
  IF i > Len(a) THEN [err |-> Nil, args |-> a]
  ELSE IF ContainsRune(a[i], DQ)
       THEN [err |-> Errorf("ParseError", ParseErrorMsg(i - 1, a[i])), args |-> a]
       ELSE prepareLoop_QuoteAll([a EXCEPT ![i] = <<DQ>> \o a[i] \o <<DQ>>], i + 1)

\* mutation: the message counts the arguments from one
RECURSIVE prepareLoop_OneBased(_, _)
prepareLoop_OneBased(a, i) ==
  IF i > Len(a) THEN [err |-> Nil, args |-> a]
  ELSE IF ContainsRune(a[i], DQ)
       THEN [err |-> Errorf("ParseError", ParseErrorMsg(i, a[i])), args |-> a]
       ELSE prepareLoop_OneBased(IF containsWhitespace(a[i])
                                 THEN [a EXCEPT ![i] = <<DQ>> \o a[i] \o <<DQ>>]
                                 ELSE a,
                                 i + 1)

\* the range loop over args, from (1-based) position i on; the slice a is
\* written in place
RECURSIVE prepareLoop(_, _)
prepareLoop(a, i) ==
  IF i > Len(a) THEN [err |-> Nil, args |-> a]
  ELSE IF ContainsRune(a[i], DQ)
       THEN [err |-> Errorf("ParseError", ParseErrorMsg(i - 1, a[i])), args |-> a]
       ELSE prepareLoop(IF containsWhitespace(a[i])
                        THEN [a EXCEPT ![i] = <<DQ>> \o a[i] \o <<DQ>>]
                        ELSE a,
                        i + 1)

\* mutation: the blank check is missing
prepareCommandLine_NoBlankCheck(c, a) ==
  LET r == prepareLoop(a, 1)
  IN  IF r.err # Nil
      THEN [line |-> <<>>, err |-> r.err, args |-> r.args]
      ELSE [line |-> IF Len(r.args) > 0 THEN c \o <<SP>> \o Join(r.args, <<SP>>) ELSE c,
            err  |-> Nil,
            args |-> r.args]

\* result: the command line, the error, and the argument slice as the call
\* leaves it
prepareCommandLine(c, a) ==
  IF isBlank(c)
  THEN [line |-> <<>>, err |-> AssertionErrorf(<<"command cannot be empty">>), args |-> a]
  ELSE LET r == prepareLoop(a, 1)
       IN  IF r.err # Nil
           THEN [line |-> <<>>, err |-> r.err, args |-> r.args]
           ELSE [line |-> IF Len(r.args) > 0 THEN c \o <<SP>> \o Join(r.args, <<SP>>) ELSE c,
                 err  |-> Nil,
                 args |-> r.args]

(***************************************************************************)
(* Device descriptors                                                      *)
(***************************************************************************)
AnyDevice == [tag |-> "Any", val |-> <<>>]
DeviceWithSerial(s) == [tag |-> "Serial", val |-> s]

Descriptors == {AnyDevice, DeviceWithSerial(<<"s">>)}

getHostPrefix(d) ==
  IF d.tag = "Serial" THEN <<"host-serial:">> \o d.val ELSE <<"host">>

getTransportDescriptor(d) ==
  IF d.tag = "Serial" THEN <<"serial:">> \o d.val ELSE <<"transport-any">>

(***************************************************************************)
(* State                                                                   *)
(***************************************************************************)
VARIABLES
  op,          \* the Device operation the caller runs
  input,       \* the caller's command and argument list, as passed
  descriptor,  \* Device.descriptor
  selfEnding,  \* whether the remote command ends without being killed
  args,        \* the args slice of the running call
  pc,          \* position of the caller's goroutine and of the watcher
  cn,          \* the conn local of each goroutine (0: none)
  line,        \* the prepared command line of each goroutine
  conns,       \* every connection dialed so far, with what happened on it
  ret,         \* what the caller's operation returned
  wcmd,        \* the command the watcher passes to RunCommand
  wphase,      \* which of its two RunCommand calls the watcher is in
  wlog,        \* what the watcher logged
  ctx,         \* ctx.Err(): "none" until the context is done
  cmdDone,     \* how many times the cmdDone channel was closed
  proc,        \* the remote process started by the shell request
  stream,      \* the body stream of the primary connection
  emitted,     \* bytes the remote process wrote so far
  resp,        \* resp of RunCommandContext
  readErr,     \* err of RunCommandContext's ReadUntilEof
  ctxAtRead,   \* ctx.Err() at the moment ReadUntilEof returned
  devices,     \* what Device.deviceListFunc returns
  serial,      \* serial of DeviceInfo
  listCalls,   \* how many times deviceListFunc was called
  info         \* the *DeviceInfo that DeviceInfo returned

cfg == <<op, input, descriptor, selfEnding, devices>>
remote == <<proc, stream, emitted>>
rcc == <<resp, readErr, ctxAtRead>>
dinfo == <<serial, listCalls, info>>
vars == <<op, input, descriptor, selfEnding, args, pc, cn, line, conns, ret,
          wcmd, wphase, wlog, ctx, cmdDone, proc, stream, emitted, resp,
          readErr, ctxAtRead, devices, serial, listCalls, info>>

Threads == {"main", "watch"}

SyncOps == {"Stat", "ListDirEntries", "OpenRead", "OpenWrite"}
DialingOps == {"Remount", "Root", "Unroot"} \cup SyncOps
RoundTripOps == {"Root", "Unroot", "WaitFor"}
ShellOps == {"RunCommand", "RunCommandContext"}
AttributeOps == {"Serial", "DevicePath"}
Ops == ShellOps \cup DialingOps \cup {"WaitFor"} \cup AttributeOps \cup {"DeviceInfo"}

\* the commands and argument lists the device operations are run with
DeviceCmds == {<<>>, <<SP>>, <<"a">>, <<SLASH, "a">>}
DeviceArgs == {<<>>, << <<"b">> >>, << <<"b", SP, "b">> >>, << <<DQ>> >>}

NoInput == [cmd |-> <<"a">>, args |-> <<>>]

\* the pid of the remote process, as ps prints it
ProcPid == <<"7">>

ShellBodies == {<<>>, <<"o">>}
LookupBodies == {<<>>, <<NL>>, ProcPid \o <<NL>>}
KillBodies == {<<>>}
RootBodies == {<<"restarting adbd as root">>, <<"adbd is already running as root">>,
               <<"restarting adbd as non root">>, <<"adbd not running as root">>,
               <<"x">>}
WaitBodies == {<<>>, <<"x">>}

\* what the server answers to an attribute query: its messages, in order
AttrMessages == {<< <<"abc">> >>, << <<"def">>, <<"x">> >>, << <<"zzz">> >>}

NetErr == Errorf("NetworkError", <<>>)

\* device records and what deviceListFunc may return
DeviceRecord(s, product) == [Serial |-> s, Product |-> product]
NoInfo == [Serial |-> <<>>, Product |-> <<"<nil>">>]
NoListing == [list |-> <<>>, err |-> Nil]
Listings ==
  {[list |-> l, err |-> Nil] :
     l \in {<<>>,
            <<DeviceRecord(<<"abc">>, <<"Foo">>), DeviceRecord(<<"def">>, <<"Bar">>)>>,
            <<DeviceRecord(<<"def">>, <<"Bar">>), DeviceRecord(<<"abc">>, <<"Foo">>),
              DeviceRecord(<<"abc">>, <<"Baz">>)>>}}
    \cup {[list |-> <<>>, err |-> NetErr]}
DialErrs == {NetErr}
SendErrs == {NetErr}
StatusErrs == {Errorf("ConnectionError", <<>>), NetErr}
ReadErrs == {NetErr}

InitCommon ==
  /\ descriptor \in Descriptors
  /\ args = input.args
  /\ pc = [t \in Threads |-> IF t = "main" THEN "start" ELSE "idle"]
  /\ cn = [t \in Threads |-> 0]
  /\ line = [t \in Threads |-> <<>>]
  /\ conns = <<>>
  /\ ret = [out |-> <<>>, err |-> Nil]
  /\ wcmd = <<>>
  /\ wphase = "none"
  /\ wlog = <<>>
  /\ ctx = "none"
  /\ cmdDone = 0
  /\ proc = "none"
  /\ stream = "open"
  /\ emitted = <<>>
  /\ resp = <<>>
  /\ readErr = Nil
  /\ ctxAtRead = "none"
  /\ serial = <<>>
  /\ listCalls = 0
  /\ info = NoInfo

Init ==
  /\ op \in Ops
  /\ input \in IF op \in ShellOps
               THEN [cmd : DeviceCmds, args : DeviceArgs]
               ELSE {NoInput}
  /\ selfEnding \in IF op = "RunCommandContext" THEN BOOLEAN ELSE {FALSE}
  /\ devices \in IF op = "DeviceInfo" THEN Listings ELSE {NoListing}
  /\ InitCommon

(***************************************************************************)
(* Connections                                                             *)
(***************************************************************************)
Event(ev, data) == [ev |-> ev, data |-> data]

Dialed(cs, t) == Append(cs, [by |-> t, open |-> TRUE, log |-> <<>>])

Logged(cs, c, ev, data) == [cs EXCEPT ![c].log = Append(@, Event(ev, data))]

\* conn.Close()
Closed(cs, c) == [cs EXCEPT ![c].open = FALSE, ![c].log = Append(@, Event("close", <<>>))]

Sent(c) == {i \in 1..Len(conns[c].log) : conns[c].log[i].ev = "send"}

(***************************************************************************)
(* Returning from an operation.  The caller's goroutine stores the result; *)
(* the watcher goes on with what it does after each of its RunCommand      *)
(* calls.                                                                  *)
(***************************************************************************)
Goto(t, l) ==
  /\ pc' = [pc EXCEPT ![t] = l]
  /\ UNCHANGED <<ret, wcmd, wphase, wlog>>

\* mutation: the kill is sent whatever the lookup gave
WatcherAfterRunCommand_KillAlways(out, err) ==
  IF wphase = "lookup"
  THEN /\ wlog' = Append(wlog, "Killing PID")
       /\ wcmd' = <<"kill ">> \o TrimSpace(out)
       /\ wphase' = "kill"
       /\ pc' = [pc EXCEPT !["watch"] = "rc_start"]
  ELSE /\ wlog' = IF err # Nil THEN Append(wlog, "failed to kill") ELSE wlog
       /\ pc' = [pc EXCEPT !["watch"] = "done"]
       /\ UNCHANGED <<wcmd, wphase>>

WatcherAfterRunCommand(out, err) ==
  IF wphase = "lookup"
  THEN IF err # Nil
       THEN /\ wlog' = Append(wlog, "failed to fetch matching processes")
            /\ pc' = [pc EXCEPT !["watch"] = "done"]
            /\ UNCHANGED <<wcmd, wphase>>
       ELSE IF Len(TrimSpace(out)) = 0
            THEN /\ wlog' = Append(wlog, "output from kill was empty")
                 /\ pc' = [pc EXCEPT !["watch"] = "done"]
                 /\ UNCHANGED <<wcmd, wphase>>
            ELSE /\ wlog' = Append(wlog, "Killing PID")
                 /\ wcmd' = <<"kill ">> \o TrimSpace(out)
                 /\ wphase' = "kill"
                 /\ pc' = [pc EXCEPT !["watch"] = "rc_start"]
  ELSE /\ wlog' = IF err # Nil THEN Append(wlog, "failed to kill") ELSE wlog
       /\ pc' = [pc EXCEPT !["watch"] = "done"]
       /\ UNCHANGED <<wcmd, wphase>>

Return(t, out, err) ==
  IF t = "main"
  THEN /\ ret' = [out |-> out, err |-> err]
       /\ pc' = [pc EXCEPT ![t] = "done"]
       /\ UNCHANGED <<wcmd, wphase, wlog>>
  ELSE /\ WatcherAfterRunCommand(out, err)
       /\ UNCHANGED ret

\* the function a goroutine is running
fn(t) == IF t = "watch" THEN "RunCommand" ELSE op

(***************************************************************************)
(* prepareCommandLine called on its own                                    *)
(***************************************************************************)
PrepareCommandLine_Call ==
  /\ op = "prepareCommandLine"
  /\ pc["main"] = "start"
  /\ LET r == prepareCommandLine(input.cmd, args)
     IN  /\ args' = r.args
         /\ ret' = [out |-> r.line, err |-> r.err]
  /\ pc' = [pc EXCEPT !["main"] = "done"]
  /\ UNCHANGED <<cfg, cn, line, conns, wcmd, wphase, wlog, ctx, cmdDone, remote, rcc, dinfo>>

PrepInit ==
  /\ op = "prepareCommandLine"
  /\ input \in [cmd : SeqsUpTo(CmdChars, MaxCmdLen),
                args : SeqsUpTo(SeqsUpTo(ArgChars, MaxArgLen), MaxArgs)]
  /\ selfEnding = FALSE
  /\ devices = NoListing
  /\ InitCommon

PrepNext == PrepareCommandLine_Call

PrepSpec == PrepInit /\ [][PrepNext]_vars

(***************************************************************************)
(* dialDevice                                                              *)
(***************************************************************************)
\* what the caller of dialDevice does with the connection
AfterDial(f) ==
  CASE f = "RunCommand" -> "rc_send"
    [] f = "Remount"    -> "rm_roundtrip"
    [] f = "Root"       -> "rt_send"
    [] f = "Unroot"     -> "rt_send"
    [] f \in SyncOps    -> "gs_send"

\* what the caller of dialDevice returns when dialDevice failed
DialFailed(t, err) ==
  CASE fn(t) \in {"RunCommand", "Remount"} \cup SyncOps ->
         Return(t, <<>>, wrapClientError(err, fn(t)))
    [] fn(t) \in {"Root", "Unroot"} ->
         Return(t, <<>>, FmtErrorf("dialDevice failed", err))

TransportRequest == <<"host:">> \o getTransportDescriptor(descriptor)

\* conn, err := c.server.Dial()
dialDevice_Dial(t) ==
  /\ \/ pc[t] = "dd_dial"
     \/ t = "main" /\ pc[t] = "start" /\ op \in DialingOps
  /\ \/ /\ conns' = Dialed(conns, t)
        /\ cn' = [cn EXCEPT ![t] = Len(conns) + 1]
        /\ Goto(t, "dd_send")
     \/ /\ \E e \in DialErrs : DialFailed(t, e)
        /\ UNCHANGED <<conns, cn>>
  /\ UNCHANGED <<cfg, args, line, ctx, cmdDone, remote, rcc, dinfo>>

\* wire.SendMessageString(conn, req)
dialDevice_Send(t) ==
  /\ pc[t] = "dd_send"
  /\ \/ /\ conns' = Logged(conns, cn[t], "send", TransportRequest)
        /\ Goto(t, "dd_status")
     \/ /\ conns' = Closed(conns, cn[t])
        /\ \E e \in SendErrs : DialFailed(t, WrapErrf(e, "error connecting to device"))
  /\ UNCHANGED <<cfg, args, cn, line, ctx, cmdDone, remote, rcc, dinfo>>

\* conn.ReadStatus(req)
dialDevice_ReadStatus(t) ==
  /\ pc[t] = "dd_status"
  /\ \/ /\ conns' = Logged(conns, cn[t], "status", <<"OKAY">>)
        /\ Goto(t, AfterDial(fn(t)))
     \/ /\ conns' = Closed(Logged(conns, cn[t], "status", <<"FAIL">>), cn[t])
        /\ \E e \in StatusErrs : DialFailed(t, e)
  /\ UNCHANGED <<cfg, args, cn, line, ctx, cmdDone, remote, rcc, dinfo>>

(***************************************************************************)
(* RunCommand, run by the caller or by the watcher                         *)
(***************************************************************************)
RunCommandCmd(t) == IF t = "main" THEN input.cmd ELSE wcmd
RunCommandArgs(t) == IF t = "main" THEN args ELSE <<>>

\* what the shell answers, by the command that was sent
Bodies(t) ==
  IF t = "main" THEN ShellBodies
  ELSE IF wphase = "lookup" THEN LookupBodies ELSE KillBodies

ShellRequest(l) == <<"shell:">> \o l

RunCommand_Prepare(t) ==
  /\ \/ t = "main" /\ pc[t] = "start" /\ op = "RunCommand"
     \/ t = "watch" /\ pc[t] = "rc_start"
  /\ LET r == prepareCommandLine(RunCommandCmd(t), RunCommandArgs(t))
     IN  /\ args' = IF t = "main" THEN r.args ELSE args
         /\ IF r.err # Nil
            THEN /\ Return(t, <<>>, wrapClientError(r.err, "RunCommand"))
                 /\ UNCHANGED line
            ELSE /\ line' = [line EXCEPT ![t] = r.line]
                 /\ Goto(t, "dd_dial")
  /\ UNCHANGED <<cfg, cn, conns, ctx, cmdDone, remote, rcc, dinfo>>

\* mutation: the command is sent without its arguments
RunCommand_Send_NoArgs(t) ==
  /\ pc[t] = "rc_send"
  /\ \/ /\ conns' = Logged(conns, cn[t], "send", ShellRequest(RunCommandCmd(t)))
        /\ Goto(t, "rc_status")
     \/ /\ conns' = Closed(conns, cn[t])
        /\ \E e \in SendErrs : Return(t, <<>>, wrapClientError(e, "RunCommand"))
  /\ UNCHANGED <<cfg, args, cn, line, ctx, cmdDone, remote, rcc, dinfo>>

RunCommand_Send(t) ==
  /\ pc[t] = "rc_send"
  /\ \/ /\ conns' = Logged(conns, cn[t], "send", ShellRequest(line[t]))
        /\ Goto(t, "rc_status")
     \/ /\ conns' = Closed(conns, cn[t])
        /\ \E e \in SendErrs : Return(t, <<>>, wrapClientError(e, "RunCommand"))
  /\ UNCHANGED <<cfg, args, cn, line, ctx, cmdDone, remote, rcc, dinfo>>

RunCommand_ReadStatus(t) ==
  /\ pc[t] = "rc_status"
  /\ \/ /\ conns' = Logged(conns, cn[t], "status", <<"OKAY">>)
        /\ Goto(t, "rc_read")
     \/ /\ conns' = Closed(Logged(conns, cn[t], "status", <<"FAIL">>), cn[t])
        /\ \E e \in StatusErrs : Return(t, <<>>, wrapClientError(e, "RunCommand"))
  /\ UNCHANGED <<cfg, args, cn, line, ctx, cmdDone, remote, rcc, dinfo>>

\* mutation: a failed read gives back no bytes
RunCommand_ReadUntilEof_DropsOutput(t) ==
  /\ pc[t] = "rc_read"
  /\ \E body \in Bodies(t), e \in {Nil} \cup ReadErrs :
       /\ conns' = Closed(Logged(conns, cn[t], IF e = Nil THEN "read" ELSE "readerr", body),
                         cn[t])
       /\ Return(t, IF e = Nil THEN body ELSE <<>>, wrapClientError(e, "RunCommand"))
  /\ UNCHANGED <<cfg, args, cn, line, ctx, cmdDone, remote, rcc, dinfo>>

\* resp, err := conn.ReadUntilEof(); the deferred conn.Close() runs on return
RunCommand_ReadUntilEof(t) ==
  /\ pc[t] = "rc_read"
  /\ \E body \in Bodies(t), e \in {Nil} \cup ReadErrs :
       /\ conns' = Closed(Logged(conns, cn[t], IF e = Nil THEN "read" ELSE "readerr", body),
                         cn[t])
       /\ Return(t, body, wrapClientError(e, "RunCommand"))
  /\ UNCHANGED <<cfg, args, cn, line, ctx, cmdDone, remote, rcc, dinfo>>

(***************************************************************************)
(* RunCommandContext                                                       *)
(***************************************************************************)
\* how RunCommandContext leaves before the watcher exists
ContextFailed(prefix, err) ==
  /\ ret' = [out |-> <<>>, err |-> FmtErrorf(prefix, err)]
  /\ pc' = [pc EXCEPT !["main"] = "done"]
  /\ UNCHANGED <<wcmd, wphase, wlog>>

RunCommandContext_Prepare ==
  /\ op = "RunCommandContext"
  /\ pc["main"] = "start"
  /\ LET r == prepareCommandLine(input.cmd, args)
     IN  /\ args' = r.args
         /\ IF r.err # Nil
            THEN /\ ContextFailed("prepareCommandLine err", r.err)
                 /\ UNCHANGED line
            ELSE /\ line' = [line EXCEPT !["main"] = r.line]
                 /\ Goto("main", "dc_dial")
  /\ UNCHANGED <<cfg, cn, conns, ctx, cmdDone, remote, rcc, dinfo>>

\* conn, err := c.server.DialContext(ctx)
dialContext_Dial ==
  /\ pc["main"] = "dc_dial"
  /\ \/ /\ conns' = Dialed(conns, "main")
        /\ cn' = [cn EXCEPT !["main"] = Len(conns) + 1]
        /\ Goto("main", "dc_send")
     \/ /\ \E e \in DialErrs : ContextFailed("dialContext err", e)
        /\ UNCHANGED <<conns, cn>>
  /\ UNCHANGED <<cfg, args, line, ctx, cmdDone, remote, rcc, dinfo>>

dialContext_Send ==
  /\ pc["main"] = "dc_send"
  /\ \/ /\ conns' = Logged(conns, cn["main"], "send", TransportRequest)
        /\ Goto("main", "dc_status")
     \/ /\ conns' = Closed(conns, cn["main"])
        /\ \E e \in SendErrs :
             ContextFailed("dialContext err", WrapErrf(e, "error connecting to device"))
  /\ UNCHANGED <<cfg, args, cn, line, ctx, cmdDone, remote, rcc, dinfo>>

dialContext_ReadStatus ==
  /\ pc["main"] = "dc_status"
  /\ \/ /\ conns' = Logged(conns, cn["main"], "status", <<"OKAY">>)
        /\ Goto("main", "rcc_send")
     \/ /\ conns' = Closed(Logged(conns, cn["main"], "status", <<"FAIL">>), cn["main"])
        /\ \E e \in StatusErrs : ContextFailed("dialContext err", e)
  /\ UNCHANGED <<cfg, args, cn, line, ctx, cmdDone, remote, rcc, dinfo>>

\* mutation: the watcher is started as soon as the request is written
RunCommandContext_Send_StartsWatcher ==
  /\ pc["main"] = "rcc_send"
  /\ \/ /\ conns' = Logged(conns, cn["main"], "send", ShellRequest(line["main"]))
        /\ pc' = [pc EXCEPT !["main"] = "rcc_status", !["watch"] = "select"]
        /\ UNCHANGED <<ret, wcmd, wphase, wlog>>
     \/ /\ conns' = Closed(conns, cn["main"])
        /\ \E e \in SendErrs : ContextFailed("conn.SendMessage err", e)
  /\ UNCHANGED <<cfg, args, cn, line, ctx, cmdDone, remote, rcc, dinfo>>

RunCommandContext_Send ==
  /\ pc["main"] = "rcc_send"
  /\ \/ /\ conns' = Logged(conns, cn["main"], "send", ShellRequest(line["main"]))
        /\ Goto("main", "rcc_status")
     \/ /\ conns' = Closed(conns, cn["main"])
        /\ \E e \in SendErrs : ContextFailed("conn.SendMessage err", e)
  /\ UNCHANGED <<cfg, args, cn, line, ctx, cmdDone, remote, rcc, dinfo>>

\* on success the remote process runs, cmdDone is made and the watcher
\* goroutine is started
RunCommandContext_ReadStatus ==
  /\ pc["main"] = "rcc_status"
  /\ \/ /\ conns' = Logged(conns, cn["main"], "status", <<"OKAY">>)
        /\ pc' = [pc EXCEPT !["main"] = "rcc_read", !["watch"] = "select"]
        /\ proc' = "running"
        /\ UNCHANGED <<ret, wcmd, wphase, wlog>>
     \/ /\ conns' = Closed(Logged(conns, cn["main"], "status", <<"FAIL">>), cn["main"])
        /\ \E e \in StatusErrs : ContextFailed("conn.ReadStatus err", e)
        /\ UNCHANGED proc
  /\ UNCHANGED <<cfg, args, cn, line, ctx, cmdDone, stream, emitted, rcc, dinfo>>

\* resp, err := conn.ReadUntilEof(): blocks until the stream ends or breaks
RunCommandContext_ReadUntilEof ==
  /\ pc["main"] = "rcc_read"
  /\ stream # "open"
  /\ resp' = emitted
  /\ readErr' = IF stream = "err" THEN NetErr ELSE Nil
  /\ ctxAtRead' = ctx
  /\ conns' = Logged(conns, cn["main"], "read", emitted)
  /\ Goto("main", "rcc_switch")
  /\ UNCHANGED <<cfg, args, cn, line, ctx, cmdDone, remote, dinfo>>

CtxErr(c) == Errorf(c, <<>>)

\* mutation: the read error is looked at before the context
RunCommandContext_Result_ErrFirst ==
  /\ pc["main"] = "rcc_switch"
  /\ ret' = IF readErr # Nil
            THEN [out |-> resp, err |-> FmtErrorf("conn.ReadUntilEof err", readErr)]
            ELSE IF ctx # "none" THEN [out |-> resp, err |-> CtxErr(ctx)]
                 ELSE [out |-> resp, err |-> Nil]
  /\ pc' = [pc EXCEPT !["main"] = "rcc_close_cmdDone"]
  /\ UNCHANGED <<cfg, args, cn, line, conns, wcmd, wphase, wlog, ctx, cmdDone, remote, rcc, dinfo>>

\* mutation: the context is looked at only when the read failed
RunCommandContext_Result_CtxOnError ==
  /\ pc["main"] = "rcc_switch"
  /\ ret' = IF readErr = Nil THEN [out |-> resp, err |-> Nil]
            ELSE IF ctx # "none" THEN [out |-> resp, err |-> CtxErr(ctx)]
                 ELSE [out |-> resp, err |-> FmtErrorf("conn.ReadUntilEof err", readErr)]
  /\ pc' = [pc EXCEPT !["main"] = "rcc_close_cmdDone"]
  /\ UNCHANGED <<cfg, args, cn, line, conns, wcmd, wphase, wlog, ctx, cmdDone, remote, rcc, dinfo>>

\* the switch that picks the result
RunCommandContext_Result ==
  /\ pc["main"] = "rcc_switch"
  /\ ret' = IF ctx # "none" THEN [out |-> resp, err |-> CtxErr(ctx)]
            ELSE IF readErr # Nil
                 THEN [out |-> resp, err |-> FmtErrorf("conn.ReadUntilEof err", readErr)]
                 ELSE [out |-> resp, err |-> Nil]
  /\ pc' = [pc EXCEPT !["main"] = "rcc_close_cmdDone"]
  /\ UNCHANGED <<cfg, args, cn, line, conns, wcmd, wphase, wlog, ctx, cmdDone, remote, rcc, dinfo>>

\* mutation: cmdDone is never closed
RunCommandContext_CloseCmdDone_Skip ==
  /\ pc["main"] = "rcc_close_cmdDone"
  /\ cmdDone' = cmdDone
  /\ Goto("main", "rcc_close_conn")
  /\ UNCHANGED <<cfg, args, cn, line, conns, ctx, remote, rcc, dinfo>>

\* defer func() { close(cmdDone) }()
RunCommandContext_CloseCmdDone ==
  /\ pc["main"] = "rcc_close_cmdDone"
  /\ cmdDone' = cmdDone + 1
  /\ Goto("main", "rcc_close_conn")
  /\ UNCHANGED <<cfg, args, cn, line, conns, ctx, remote, rcc, dinfo>>

\* defer conn.Close()
RunCommandContext_CloseConn ==
  /\ pc["main"] = "rcc_close_conn"
  /\ conns' = Closed(conns, cn["main"])
  /\ Goto("main", "done")
  /\ UNCHANGED <<cfg, args, cn, line, ctx, cmdDone, remote, rcc, dinfo>>

(***************************************************************************)
(* The watcher goroutine                                                   *)
(***************************************************************************)
\* case <-cmdDone: return
Watcher_CmdDone ==
  /\ pc["watch"] = "select"
  /\ cmdDone > 0
  /\ Goto("watch", "done")
  /\ UNCHANGED <<cfg, args, cn, line, conns, ctx, cmdDone, remote, rcc, dinfo>>

\* the pattern the watcher looks for
FullCommand(c, a) ==
  IF Len(a) > 0
  THEN LastComponent(c) \o <<SP>> \o Join(a, <<SP>>)
  ELSE LastComponent(c)

ProcFetchCmd(c, a) ==
  <<"ps -f -A | grep '">> \o FullCommand(c, a)
    \o <<"' | sed 's/   */ /g' | cut -d ' ' -f 2 | head -n 1">>

\* case <-ctx.Done(): build the lookup command and call RunCommand with it
Watcher_CtxDone ==
  /\ pc["watch"] = "select"
  /\ ctx # "none"
  /\ wcmd' = ProcFetchCmd(input.cmd, args)
  /\ wphase' = "lookup"
  /\ pc' = [pc EXCEPT !["watch"] = "rc_start"]
  /\ UNCHANGED <<cfg, args, cn, line, conns, ret, wlog, ctx, cmdDone, remote, rcc, dinfo>>

(***************************************************************************)
(* Remount                                                                 *)
(***************************************************************************)
\* resp, err := conn.RoundTripSingleResponse([]byte("remount")), then the
\* deferred conn.Close()
Remount_RoundTrip ==
  /\ pc["main"] = "rm_roundtrip"
  /\ LET c == cn["main"]
         sent == Logged(conns, c, "send", <<"remount">>)
     IN  \/ /\ conns' = Closed(conns, c)
            /\ \E e \in SendErrs : Return("main", <<>>, wrapClientError(e, "Remount"))
         \/ /\ conns' = Closed(Logged(sent, c, "status", <<"FAIL">>), c)
            /\ \E e \in StatusErrs : Return("main", <<>>, wrapClientError(e, "Remount"))
         \/ /\ conns' = Closed(Logged(sent, c, "status", <<"OKAY">>), c)
            /\ \E e \in ReadErrs : Return("main", <<>>, wrapClientError(e, "Remount"))
         \/ /\ conns' = Closed(Logged(Logged(sent, c, "status", <<"OKAY">>),
                                      c, "read", <<"remount succeeded">>), c)
            /\ Return("main", <<"remount succeeded">>, Nil)
  /\ UNCHANGED <<cfg, args, cn, line, ctx, cmdDone, remote, rcc, dinfo>>

(***************************************************************************)
(* roundTripUntilEof and its callers Root, Unroot and WaitFor              *)
(***************************************************************************)
DeviceConnected == <<"device">>

RoundTripRequest ==
  CASE op = "Root"    -> <<"root:">>
    [] op = "Unroot"  -> <<"unroot:">>
    [] op = "WaitFor" -> getHostPrefix(descriptor) \o <<":wait-for-any-">> \o DeviceConnected

\* strings.Contains
Contains(str, substr) == \E i \in 1..Len(str) : str[i] = substr

ErrNoOp == Errorf("no-op", <<>>)

\* mutation: an already rooted device is reported as success
RootResult_NoOpIsNil(respStr) ==
  IF Contains(respStr, "restarting adbd as root") THEN Nil
  ELSE IF Contains(respStr, "adbd is already running as root") THEN Nil
  ELSE Errorf("unexpected response", respStr)

RootResult(respStr) ==
  IF Contains(respStr, "restarting adbd as root") THEN Nil
  ELSE IF Contains(respStr, "adbd is already running as root") THEN ErrNoOp
  ELSE Errorf("unexpected response", respStr)

UnrootResult(respStr) ==
  IF Contains(respStr, "restarting adbd as non root") THEN Nil
  ELSE IF Contains(respStr, "adbd not running as root") THEN ErrNoOp
  ELSE Errorf("unexpected unroot response", respStr)

\* what the caller returns when roundTripUntilEof failed
RoundTripFailed(err) ==
  Return("main", <<>>,
         FmtErrorf(IF op = "WaitFor" THEN "roundTripUntilEof err"
                   ELSE "roundTripUntilEof failed", err))

\* conn, err := c.server.Dial() of WaitFor
WaitFor_Dial ==
  /\ op = "WaitFor"
  /\ pc["main"] = "start"
  /\ \/ /\ conns' = Dialed(conns, "main")
        /\ cn' = [cn EXCEPT !["main"] = Len(conns) + 1]
        /\ Goto("main", "rt_send")
     \/ /\ \E e \in DialErrs : Return("main", <<>>, FmtErrorf("server Dial", e))
        /\ UNCHANGED <<conns, cn>>
  /\ UNCHANGED <<cfg, args, line, ctx, cmdDone, remote, rcc, dinfo>>

roundTripUntilEof_Send ==
  /\ pc["main"] = "rt_send"
  /\ \/ /\ conns' = Logged(conns, cn["main"], "send", RoundTripRequest)
        /\ Goto("main", "rt_status")
     \/ /\ conns' = Closed(conns, cn["main"])
        /\ \E e \in SendErrs : RoundTripFailed(FmtErrorf("SendMessage failed", e))
  /\ UNCHANGED <<cfg, args, cn, line, ctx, cmdDone, remote, rcc, dinfo>>

roundTripUntilEof_ReadStatus ==
  /\ pc["main"] = "rt_status"
  /\ \/ /\ conns' = Logged(conns, cn["main"], "status", <<"OKAY">>)
        /\ Goto("main", "rt_read")
     \/ /\ conns' = Closed(Logged(conns, cn["main"], "status", <<"FAIL">>), cn["main"])
        /\ \E e \in StatusErrs : RoundTripFailed(FmtErrorf("ReadStatus failed", e))
  /\ UNCHANGED <<cfg, args, cn, line, ctx, cmdDone, remote, rcc, dinfo>>

\* resp, err := conn.ReadUntilEof(), and what the caller makes of resp
roundTripUntilEof_ReadUntilEof ==
  /\ pc["main"] = "rt_read"
  /\ \/ \E body \in IF op = "WaitFor" THEN WaitBodies ELSE RootBodies :
          /\ conns' = Closed(Logged(conns, cn["main"], "read", body), cn["main"])
          /\ Return("main", <<>>,
                    CASE op = "Root"    -> RootResult(body)
                      [] op = "Unroot"  -> UnrootResult(body)
                      [] op = "WaitFor" -> Nil)
     \/ /\ conns' = Closed(conns, cn["main"])
        /\ \E e \in ReadErrs : RoundTripFailed(FmtErrorf("ReadUntilEof failed", e))
  /\ UNCHANGED <<cfg, args, cn, line, ctx, cmdDone, remote, rcc, dinfo>>

(***************************************************************************)
(* getSyncConn and Stat                                                    *)
(***************************************************************************)
\* wire.SendMessageString(conn, "sync:")
getSyncConn_Send ==
  /\ pc["main"] = "gs_send"
  /\ \/ /\ conns' = Logged(conns, cn["main"], "send", <<"sync:">>)
        /\ Goto("main", "gs_status")
     \/ /\ \E e \in SendErrs : Return("main", <<>>, wrapClientError(e, op))
        /\ UNCHANGED conns
  /\ UNCHANGED <<cfg, args, cn, line, ctx, cmdDone, remote, rcc, dinfo>>

\* where the caller of getSyncConn goes with its sync connection
AfterSyncConn == IF op = "Stat" THEN "st_stat" ELSE "sy_transfer"

\* mutation: the status of the sync: request is not looked at
getSyncConn_ReadStatus_Ignore ==
  /\ pc["main"] = "gs_status"
  /\ \E st \in {<<"OKAY">>, <<"FAIL">>} :
       conns' = Logged(conns, cn["main"], "status", st)
  /\ Goto("main", AfterSyncConn)
  /\ UNCHANGED <<cfg, args, cn, line, ctx, cmdDone, remote, rcc, dinfo>>

\* conn.ReadStatus("sync")
getSyncConn_ReadStatus ==
  /\ pc["main"] = "gs_status"
  /\ \/ /\ conns' = Logged(conns, cn["main"], "status", <<"OKAY">>)
        /\ Goto("main", AfterSyncConn)
     \/ /\ conns' = Logged(conns, cn["main"], "status", <<"FAIL">>)
        /\ \E e \in StatusErrs : Return("main", <<>>, wrapClientError(e, op))
  /\ UNCHANGED <<cfg, args, cn, line, ctx, cmdDone, remote, rcc, dinfo>>

\* entry, err := stat(conn, path), then the deferred conn.Close()
Stat_stat ==
  /\ pc["main"] = "st_stat"
  /\ LET sent == Logged(conns, cn["main"], "send", <<"STAT">>)
     IN  \/ /\ conns' = Closed(Logged(sent, cn["main"], "read", <<"STAT">>), cn["main"])
            /\ Return("main", <<"entry">>, Nil)
         \/ /\ conns' = Closed(sent, cn["main"])
            /\ \E e \in StatusErrs : Return("main", <<>>, wrapClientError(e, "Stat"))
  /\ UNCHANGED <<cfg, args, cn, line, ctx, cmdDone, remote, rcc, dinfo>>

\* the opcode that opens the binary exchange of a sync operation
SyncOpcode ==
  CASE op = "Stat"           -> <<"STAT">>
    [] op = "ListDirEntries" -> <<"LIST">>
    [] op = "OpenRead"       -> <<"RECV">>
    [] op = "OpenWrite"      -> <<"SEND">>

\* listDirEntries(conn, path), receiveFile(conn, path), sendFile(conn, ...):
\* the request is written and the entries, reader or writer handed back
\* hold the connection; device.go closes nothing on either way out
Sync_Transfer ==
  /\ pc["main"] = "sy_transfer"
  /\ op \in SyncOps \ {"Stat"}
  /\ \/ /\ conns' = Logged(conns, cn["main"], "send", SyncOpcode)
        /\ Return("main", <<"handle">>, Nil)
     \/ /\ UNCHANGED conns
        /\ \E e \in SendErrs : Return("main", <<>>, wrapClientError(e, op))
  /\ UNCHANGED <<cfg, args, cn, line, ctx, cmdDone, remote, rcc, dinfo>>

(***************************************************************************)
(* getAttribute and its callers Serial, DevicePath and DeviceInfo          *)
(***************************************************************************)
AttrName ==
  CASE op = "Serial"     -> "get-serialno"
    [] op = "DeviceInfo" -> "get-serialno"
    [] op = "DevicePath" -> "get-devpath"

\* mutation: the transport descriptor is used in place of the host prefix
AttributeRequest_Transport(attr) == getTransportDescriptor(descriptor) \o <<":", attr>>

\* fmt.Sprintf("%s:%s", c.descriptor.getHostPrefix(), attr)
AttributeRequest(attr) == getHostPrefix(descriptor) \o <<":", attr>>

\* what the caller of getAttribute does with (attr, err)
AfterGetAttribute(attr, err) ==
  IF op \in AttributeOps
  THEN /\ Return("main", attr, wrapClientError(err, op))
       /\ UNCHANGED dinfo
  ELSE IF err # Nil
       THEN /\ Return("main", <<>>,
                      wrapClientError(wrapClientError(err, "Serial"),
                                      "GetDeviceInfo(GetSerial)"))
            /\ UNCHANGED dinfo
       ELSE /\ serial' = attr
            /\ Goto("main", "di_list")
            /\ UNCHANGED <<listCalls, info>>

\* resp, err := roundTripSingleResponse(c.server, "<host-prefix>:<attr>"):
\* dial, send the request, read the status and the first message, close
getAttribute_RoundTrip ==
  /\ pc["main"] = "start"
  /\ op \in AttributeOps \cup {"DeviceInfo"}
  /\ LET c == Len(conns) + 1
         dialed == Dialed(conns, "main")
         sent == Logged(dialed, c, "send", AttributeRequest(AttrName))
         okay == Logged(sent, c, "status", <<"OKAY">>)
     IN  \/ /\ UNCHANGED conns
            /\ \E e \in DialErrs : AfterGetAttribute(<<>>, e)
         \/ /\ conns' = Closed(dialed, c)
            /\ \E e \in SendErrs : AfterGetAttribute(<<>>, e)
         \/ /\ conns' = Closed(Logged(sent, c, "status", <<"FAIL">>), c)
            /\ \E e \in StatusErrs : AfterGetAttribute(<<>>, e)
         \/ /\ conns' = Closed(okay, c)
            /\ \E e \in ReadErrs : AfterGetAttribute(<<>>, e)
         \/ \E msgs \in AttrMessages :
              /\ conns' = Closed(Logged(okay, c, "read", msgs[1]), c)
              /\ AfterGetAttribute(msgs[1], Nil)
  /\ UNCHANGED <<cfg, args, cn, line, ctx, cmdDone, remote, rcc>>

\* mutation: the scan keeps the last record with the serial
RECURSIVE FindDevice_Last(_, _, _)
FindDevice_Last(list, i, s) ==
  IF i < 1 THEN 0
  ELSE IF list[i].Serial = s THEN i
  ELSE FindDevice_Last(list, i - 1, s)

FindDevice_FromEnd(list, i, s) == FindDevice_Last(list, Len(list), s)

\* for _, deviceInfo := range devices: the position of the record returned,
\* 0 when the loop ends without returning
RECURSIVE FindDevice(_, _, _)
FindDevice(list, i, s) ==
  IF i > Len(list) THEN 0
  ELSE IF list[i].Serial = s THEN i
  ELSE FindDevice(list, i + 1, s)

DeviceNotFoundMsg(s) == <<"device list doesn't contain serial ">> \o s

\* devices, err := c.deviceListFunc() and the scan of the listing
DeviceInfo_List ==
  /\ pc["main"] = "di_list"
  /\ listCalls' = listCalls + 1
  /\ IF devices.err # Nil
     THEN /\ info' = NoInfo
          /\ Return("main", <<>>, wrapClientError(devices.err, "DeviceInfo(ListDevices)"))
     ELSE LET i == FindDevice(devices.list, 1, serial)
          IN  IF i # 0
              THEN /\ info' = devices.list[i]
                   /\ Return("main", <<>>, Nil)
              ELSE /\ info' = NoInfo
                   /\ Return("main", <<>>,
                             wrapClientError(Errorf("DeviceNotFound", DeviceNotFoundMsg(serial)),
                                             "DeviceInfo"))
  /\ UNCHANGED <<cfg, args, cn, line, conns, ctx, cmdDone, remote, rcc, serial>>

(***************************************************************************)
(* The environment: the caller's context, the remote process, the network  *)
(***************************************************************************)
\* the context is cancelled or its deadline passes
Cancel ==
  /\ op = "RunCommandContext"
  /\ ctx = "none"
  /\ ctx' \in {"Canceled", "DeadlineExceeded"}
  /\ UNCHANGED <<cfg, args, pc, cn, line, conns, ret, wcmd, wphase, wlog, cmdDone, remote, rcc, dinfo>>

\* the remote process writes a byte
ProcEmit ==
  /\ proc = "running"
  /\ stream = "open"
  /\ Len(emitted) < MaxOut
  /\ emitted' = Append(emitted, "o")
  /\ UNCHANGED <<cfg, args, pc, cn, line, conns, ret, wcmd, wphase, wlog, ctx, cmdDone,
                 proc, stream, rcc, dinfo>>

\* the remote process ends by itself and the stream is closed
ProcExit ==
  /\ proc = "running"
  /\ selfEnding
  /\ proc' = "exited"
  /\ stream' = IF stream = "open" THEN "eof" ELSE stream
  /\ UNCHANGED <<cfg, args, pc, cn, line, conns, ret, wcmd, wphase, wlog, ctx, cmdDone,
                 emitted, rcc, dinfo>>

\* the primary connection breaks while it is being read
NetFail ==
  /\ pc["main"] = "rcc_read"
  /\ stream = "open"
  /\ stream' = "err"
  /\ UNCHANGED <<cfg, args, pc, cn, line, conns, ret, wcmd, wphase, wlog, ctx, cmdDone,
                 proc, emitted, rcc, dinfo>>

KillRequest == ShellRequest(<<"kill ">> \o ProcPid)

\* a kill of the process's pid was accepted by the device and takes effect
RemoteKill ==
  /\ proc = "running"
  /\ \E c \in 1..Len(conns) :
       \E i \in Sent(c) :
         /\ conns[c].log[i].data = KillRequest
         /\ i < Len(conns[c].log)
         /\ conns[c].log[i + 1] = Event("status", <<"OKAY">>)
  /\ proc' = "killed"
  /\ stream' = IF stream = "open" THEN "eof" ELSE stream
  /\ UNCHANGED <<cfg, args, pc, cn, line, conns, ret, wcmd, wphase, wlog, ctx, cmdDone,
                 emitted, rcc, dinfo>>

(***************************************************************************)
(* Specifications                                                          *)
(***************************************************************************)
MainStep ==
  \/ RunCommand_Prepare("main")
  \/ dialDevice_Dial("main")
  \/ dialDevice_Send("main")
  \/ dialDevice_ReadStatus("main")
  \/ RunCommand_Send("main")
  \/ RunCommand_ReadStatus("main")
  \/ RunCommand_ReadUntilEof("main")
  \/ RunCommandContext_Prepare
  \/ dialContext_Dial
  \/ dialContext_Send
  \/ dialContext_ReadStatus
  \/ RunCommandContext_Send
  \/ RunCommandContext_ReadStatus
  \/ RunCommandContext_ReadUntilEof
  \/ RunCommandContext_Result
  \/ RunCommandContext_CloseCmdDone
  \/ RunCommandContext_CloseConn
  \/ Remount_RoundTrip
  \/ WaitFor_Dial
  \/ roundTripUntilEof_Send
  \/ roundTripUntilEof_ReadStatus
  \/ roundTripUntilEof_ReadUntilEof
  \/ getSyncConn_Send
  \/ getSyncConn_ReadStatus
  \/ Stat_stat
  \/ Sync_Transfer
  \/ getAttribute_RoundTrip
  \/ DeviceInfo_List

WatcherStep ==
  \/ Watcher_CmdDone
  \/ Watcher_CtxDone
  \/ RunCommand_Prepare("watch")
  \/ dialDevice_Dial("watch")
  \/ dialDevice_Send("watch")
  \/ dialDevice_ReadStatus("watch")
  \/ RunCommand_Send("watch")
  \/ RunCommand_ReadStatus("watch")
  \/ RunCommand_ReadUntilEof("watch")

Next ==
  \/ \E t \in Threads : RunCommand_Prepare(t)
  \/ \E t \in Threads : dialDevice_Dial(t)
  \/ \E t \in Threads : dialDevice_Send(t)
  \/ \E t \in Threads : dialDevice_ReadStatus(t)
  \/ \E t \in Threads : RunCommand_Send(t)
  \/ \E t \in Threads : RunCommand_ReadStatus(t)
  \/ \E t \in Threads : RunCommand_ReadUntilEof(t)
  \/ RunCommandContext_Prepare
  \/ dialContext_Dial
  \/ dialContext_Send
  \/ dialContext_ReadStatus
  \/ RunCommandContext_Send
  \/ RunCommandContext_ReadStatus
  \/ RunCommandContext_ReadUntilEof
  \/ RunCommandContext_Result
  \/ RunCommandContext_CloseCmdDone
  \/ RunCommandContext_CloseConn
  \/ Watcher_CmdDone
  \/ Watcher_CtxDone
  \/ Remount_RoundTrip
  \/ WaitFor_Dial
  \/ roundTripUntilEof_Send
  \/ roundTripUntilEof_ReadStatus
  \/ roundTripUntilEof_ReadUntilEof
  \/ getSyncConn_Send
  \/ getSyncConn_ReadStatus
  \/ Stat_stat
  \/ Sync_Transfer
  \/ getAttribute_RoundTrip
  \/ DeviceInfo_List
  \/ Cancel
  \/ ProcEmit
  \/ ProcExit
  \/ NetFail
  \/ RemoteKill

Spec == Init /\ [][Next]_vars

\* every step of the caller's goroutine and of the watcher that can be taken
\* is eventually taken; the context, the remote process and the network owe
\* nothing
FairSpec == Spec /\ WF_vars(MainStep) /\ WF_vars(WatcherStep)

(***************************************************************************)
(* Properties                                                              *)
(***************************************************************************)
IsContext == op = "RunCommandContext"

\* ReadUntilEof of RunCommandContext has returned
ReadCompleted ==
  IsContext /\ pc["main"] \in {"rcc_switch", "rcc_close_cmdDone", "rcc_close_conn", "done"}

\* RunCommandContext has picked its result
ResultPicked ==
  IsContext /\ pc["main"] \in {"rcc_close_cmdDone", "rcc_close_conn", "done"}
            /\ cn["main"] # 0
            /\ \E i \in 1..Len(conns[cn["main"]].log) : conns[cn["main"]].log[i].ev = "read"

\* the bytes ReadUntilEof handed back on the primary connection
PrimaryRead ==
  LET l == conns[cn["main"]].log
  IN  l[CHOOSE i \in 1..Len(l) : l[i].ev = "read"].data

CtxKinds == {"Canceled", "DeadlineExceeded"}

Logs(text) == \E i \in 1..Len(wlog) : wlog[i] = text

\* the shell requests sent so far on connections the watcher dialed
WatcherRequests(cs) ==
  UNION {{<<c, i>> : i \in {j \in 1..Len(cs[c].log) :
                              /\ cs[c].log[j].ev = "send"
                              /\ cs[c].log[j].data[1] = "shell:"}} :
         c \in {d \in 1..Len(cs) : cs[d].by = "watch"}}

WatcherStarted == pc["watch"] # "idle"

C2_CancelEventuallyReturns ==
  (IsContext /\ ~selfEnding /\ pc["main"] = "rcc_read" /\ ctx # "none")
    ~> (pc["main"] = "done")

\* C3: after ReadUntilEof of RunCommandContext has returned, the watcher sends
\* no lookup and no kill request.
C3_NoWatcherRequestAfterRead ==
  [][ReadCompleted => WatcherRequests(conns') = WatcherRequests(conns)]_vars

\* C4 as claimed: a stream that ended without error before the context was
\* done gives the full output and a nil error, and the context's error is
\* returned only when the context was done before the read returned.
C4_Original ==
  (ResultPicked /\ pc["main"] = "done")
    => /\ (ctxAtRead = "none" /\ readErr = Nil) => ret = [out |-> PrimaryRead, err |-> Nil]
       /\ ret.err.kind \in CtxKinds => ctxAtRead # "none"

\* C4: the result is picked by the state of the context when the switch after
\* the read runs: the full output and nil when the read ended without error
\* and the context is not done at that moment, the context's error exactly
\* when the context is done at that moment.
C4_ResultFollowsContextAtSwitch ==
  [][(IsContext /\ pc["main"] = "rcc_switch" /\ pc'["main"] # "rcc_switch")
       => /\ (ctx = "none" /\ readErr = Nil) => ret' = [out |-> PrimaryRead, err |-> Nil]
          /\ (ret'.err.kind \in CtxKinds) <=> (ctx # "none")
          /\ ret'.out = PrimaryRead]_vars

C4_Witness ==
  /\ ResultPicked /\ pc["main"] = "done"
  /\ ctxAtRead = "none" /\ readErr = Nil
  /\ ret.err = Nil
  /\ Len(ret.out) > 0
  /\ ctx # "none"

\* C5: cmdDone is closed exactly once when RunCommandContext returns after
\* starting the watcher, the watcher then terminates, and it dials nothing
\* while the context is not done.
C5_WatcherNeverLeaks ==
  /\ [](cmdDone <= 1)
  /\ []((IsContext /\ pc["main"] = "done" /\ WatcherStarted) => cmdDone = 1)
  /\ [](ctx = "none" => \A c \in 1..Len(conns) : conns[c].by # "watch")
  /\ (IsContext /\ pc["main"] = "done" /\ WatcherStarted) ~> (pc["watch"] = "done")

C5_Witness ==
  /\ IsContext /\ pc["main"] = "done" /\ pc["watch"] = "done"
  /\ ctx = "none"
  /\ cmdDone = 1
  /\ ret.err = Nil
  /\ \A c \in 1..Len(conns) : conns[c].by # "watch"

\* the operations C6 names
ReleasingOps ==
  {"RunCommand", "RunCommandContext", "Remount", "Root", "Unroot", "WaitFor", "Stat"}

\* C6: after an operation returned an error, no connection it dialed is
\* still open.
C6_ConnectionsReleased ==
  (op \in ReleasingOps /\ pc["main"] = "done" /\ ret.err # Nil)
    => \A c \in 1..Len(conns) : conns[c].by = "main" => ~conns[c].open

HasQuotedArg == \E i \in 1..Len(input.args) : ContainsRune(input.args[i], DQ)

Rejected(kind) ==
  /\ pc["main"] \in {"start", "done"}
  /\ conns = <<>>
  /\ ~WatcherStarted
  /\ pc["main"] = "done" => (ret.err.kind = kind /\ ret.out = <<>>)

\* C7: RunCommand and RunCommandContext reject a blank command with
\* AssertionError and an argument with a double quote with ParseError, and
\* in both cases nothing is dialed or sent and no watcher is started.
C7_ValidationPrecedesIO ==
  (op \in ShellOps)
    => /\ isBlank(input.cmd) => Rejected("AssertionError")
       /\ (~isBlank(input.cmd) /\ HasQuotedArg) => Rejected("ParseError")

C7_Witness ==
  /\ IsContext /\ pc["main"] = "done"
  /\ isBlank(input.cmd) /\ Len(input.cmd) > 0
  /\ ret.err.kind = "AssertionError"
  /\ conns = <<>>

ExpectedArg(a) ==
  IF \E i \in 1..Len(a) : a[i] \in Whitespace THEN <<DQ>> \o a \o <<DQ>> ELSE a

RECURSIVE ExpectedLine(_, _)
ExpectedLine(l, as) ==
  IF as = <<>> THEN l
  ELSE ExpectedLine(l \o <<SP>> \o ExpectedArg(Head(as)), Tail(as))

PrepareReturned == op = "prepareCommandLine" /\ pc["main"] = "done"

\* C8: for a non-blank command and arguments without a double quote,
\* prepareCommandLine returns the command followed by the arguments in order,
\* separated by single spaces, an argument being quoted exactly when it
\* contains whitespace; without arguments it returns the command.
C8_PreparedLine ==
  (PrepareReturned /\ ~isBlank(input.cmd) /\ ~HasQuotedArg)
    => /\ ret.err = Nil
       /\ ret.out = ExpectedLine(input.cmd, input.args)
       /\ input.args = <<>> => ret.out = input.cmd

C8_Witness ==
  /\ PrepareReturned /\ ~isBlank(input.cmd)
  /\ Len(input.args) = 2
  /\ containsWhitespace(input.args[1]) /\ ~containsWhitespace(input.args[2])
  /\ Len(input.args[2]) > 0
  /\ ret.err = Nil
  /\ ret.out = input.cmd \o <<SP, DQ>> \o input.args[1] \o <<DQ, SP>> \o input.args[2]

FirstQuotedArg ==
  CHOOSE i \in 1..Len(input.args) :
    /\ ContainsRune(input.args[i], DQ)
    /\ \A j \in 1..(i - 1) : ~ContainsRune(input.args[j], DQ)

\* C9: for a non-blank command and an argument with a double quote,
\* prepareCommandLine returns an empty line and a ParseError whose message
\* names the (zero-based) index and the content of the first such argument.
C9_QuoteRejected ==
  (PrepareReturned /\ ~isBlank(input.cmd) /\ HasQuotedArg)
    => /\ ret.out = <<>>
       /\ ret.err.kind = "ParseError"
       /\ ret.err.msg = <<"arg at index ">> \o Itoa(FirstQuotedArg - 1)
                          \o <<" contains an invalid double quote: ">>
                          \o input.args[FirstQuotedArg]

C9_Witness ==
  /\ PrepareReturned /\ ~isBlank(input.cmd)
  /\ Len(input.args) = 2
  /\ containsWhitespace(input.args[1]) /\ ~ContainsRune(input.args[1], DQ)
  /\ ContainsRune(input.args[2], DQ)
  /\ ret.err.kind = "ParseError"
  /\ ret.err.msg[2] = "1"

\* C10: a successful RunCommand dials one connection and, on it, sends the
\* transport request, reads its status, sends the shell request with the
\* prepared command line, reads its status, reads the body to the end and
\* returns that body.
C10_RunCommandWire ==
  (op = "RunCommand" /\ pc["main"] = "done" /\ ret.err = Nil)
    => /\ Len(conns) = 1
       /\ conns[1].by = "main"
       /\ conns[1].log =
            << Event("send", <<"host:">> \o getTransportDescriptor(descriptor)),
               Event("status", <<"OKAY">>),
               Event("send", <<"shell:">> \o ExpectedLine(input.cmd, input.args)),
               Event("status", <<"OKAY">>),
               Event("read", ret.out),
               Event("close", <<>>) >>
       /\ descriptor = AnyDevice => conns[1].log[1].data = <<"host:", "transport-any">>

C10_Witness ==
  /\ op = "RunCommand" /\ pc["main"] = "done" /\ ret.err = Nil
  /\ descriptor = AnyDevice
  /\ Len(input.args) = 1 /\ containsWhitespace(input.args[1])
  /\ Len(ret.out) > 0
  /\ Len(conns) = 1

\* the events of a kind on a connection, in order
RECURSIVE EventsOf(_, _)
EventsOf(l, ev) ==
  IF l = <<>> THEN <<>>
  ELSE IF Head(l).ev = ev THEN <<Head(l).data>> \o EventsOf(Tail(l), ev)
  ELSE EventsOf(Tail(l), ev)

\* the attribute query dialed a connection and read a message on it
AttributeRead == Len(conns) = 1 /\ Len(EventsOf(conns[1].log, "read")) = 1

QueriedSerial == EventsOf(conns[1].log, "read")[1]

MatchingRecords == {i \in 1..Len(devices.list) : devices.list[i].Serial = QueriedSerial}

\* C11: DeviceInfo queries the serial, then calls the listing function once
\* and returns the first record with that serial; without such a record it
\* returns no record and DeviceNotFound naming the serial; a failed serial
\* query is returned without calling the listing function, a failed listing
\* is returned too.
C11_DeviceInfo ==
  (op = "DeviceInfo" /\ pc["main"] = "done")
    => IF ~AttributeRead
       THEN /\ listCalls = 0
            /\ info = NoInfo
            /\ ret.err # Nil /\ ret.err.kind \in {"NetworkError", "ConnectionError"}
       ELSE /\ listCalls = 1
            /\ conns[1].log[1] = Event("send", getHostPrefix(descriptor) \o <<":", "get-serialno">>)
            /\ IF devices.err # Nil
               THEN info = NoInfo /\ ret.err # Nil /\ ret.err.kind = devices.err.kind
               ELSE IF MatchingRecords # {}
                    THEN /\ ret.err = Nil
                         /\ info = devices.list[CHOOSE i \in MatchingRecords :
                                                  \A j \in MatchingRecords : i <= j]
                    ELSE /\ info = NoInfo
                         /\ ret.err.kind = "DeviceNotFound"
                         /\ ret.err.msg = <<"device list doesn't contain serial ">>
                                            \o QueriedSerial

C11_Witness ==
  /\ op = "DeviceInfo" /\ pc["main"] = "done"
  /\ AttributeRead
  /\ Cardinality(MatchingRecords) = 2
  /\ ret.err = Nil
  /\ info = DeviceRecord(<<"abc">>, <<"Foo">>)

\* C12: a successful attribute query sends one request, <host-prefix>:<attr>,
\* on one connection and returns the message read; a failed one returns the
\* empty string and the error.
C12_AttributeQuery ==
  (op \in AttributeOps /\ pc["main"] = "done")
    => IF ret.err = Nil
       THEN /\ Len(conns) = 1
            /\ EventsOf(conns[1].log, "send") =
                 << (IF descriptor.tag = "Serial"
                     THEN <<"host-serial:">> \o descriptor.val
                     ELSE <<"host">>)
                    \o <<":">> \o <<IF op = "Serial" THEN "get-serialno" ELSE "get-devpath">> >>
            /\ EventsOf(conns[1].log, "read") = <<ret.out>>
            /\ Len(ret.out) > 0
       ELSE /\ ret.out = <<>>
            /\ ret.err.kind \in {"NetworkError", "ConnectionError"}
            /\ \A c \in 1..Len(conns) : EventsOf(conns[c].log, "read") = <<>>

C12_Witness ==
  /\ op = "Serial" /\ pc["main"] = "done"
  /\ descriptor = DeviceWithSerial(<<"s">>)
  /\ ret.err = Nil
  /\ ret.out = <<"def">>
  /\ conns[1].log[1].data = <<"host-serial:", "s", ":", "get-serialno">>

\* the operations C13 names
WrappingOps ==
  {"RunCommand", "RunCommandContext", "Root", "Unroot", "WaitFor", "Remount", "Stat"}
    \cup AttributeOps

\* C13: an operation that fails returns an error whose outermost wrapper is
\* the client wrapper carrying the operation's own name (and the device
\* descriptor), over an error of the kind that was detected.
C13_ErrorsWrapped ==
  (op \in WrappingOps /\ pc["main"] = "done" /\ ret.err # Nil)
    => /\ Len(ret.err.wraps) > 0
       /\ ret.err.wraps[1] = [by |-> "Err", op |-> op]
       /\ ret.err.kind # "nil"

RestartText == IF op = "Root" THEN "restarting adbd as root" ELSE "restarting adbd as non root"
AlreadyText == IF op = "Root" THEN "adbd is already running as root" ELSE "adbd not running as root"

Mentions(body, text) == \E i \in 1..Len(body) : body[i] = text

\* C14: Root and Unroot return nil when the response read to the end has the
\* restart text, ErrNoOp when it has the already-in-that-state text, and
\* otherwise an unexpected-response error; a failed dial, send, status or
\* read gives neither nil nor ErrNoOp.
C14_RootOutcomes ==
  (op \in {"Root", "Unroot"} /\ pc["main"] = "done")
    => LET bodies == IF Len(conns) = 1 THEN EventsOf(conns[1].log, "read") ELSE <<>>
       IN  IF bodies = <<>>
           THEN ret.err # Nil /\ ret.err # ErrNoOp
                /\ ret.err.kind \in {"NetworkError", "ConnectionError"}
           ELSE /\ Mentions(bodies[1], RestartText) => ret.err = Nil
                /\ (Mentions(bodies[1], AlreadyText) /\ ~Mentions(bodies[1], RestartText))
                     => ret.err = ErrNoOp
                /\ (~Mentions(bodies[1], AlreadyText) /\ ~Mentions(bodies[1], RestartText))
                     => /\ ret.err \notin {Nil, ErrNoOp}
                        /\ ret.err.kind \in {"unexpected response", "unexpected unroot response"}
                        /\ ret.err.msg = bodies[1]

C14_Witness ==
  /\ op = "Root" /\ pc["main"] = "done"
  /\ Len(conns) = 1
  /\ EventsOf(conns[1].log, "read") = << <<"adbd is already running as root">> >>
  /\ ret.err = ErrNoOp

\* the arguments as the caller passed them, joined by single spaces
OriginalArgs ==
  IF Len(input.args) > 0 THEN <<SP>> \o Join(input.args, <<SP>>) ELSE <<>>

\* C15: the pattern the watcher greps for is the last path segment of the
\* command followed by the arguments as they were passed to
\* RunCommandContext.
C15_WatcherPattern ==
  (IsContext /\ wphase = "lookup")
    => wcmd = <<"ps -f -A | grep '">> \o LastComponent(input.cmd) \o OriginalArgs
                \o <<"' | sed 's/   */ /g' | cut -d ' ' -f 2 | head -n 1">>

\* C20: prepareCommandLine leaves the argument list it was given as it was.
C20_ArgsUnchanged ==
  PrepareReturned => args = input.args

\* the connections the watcher dialed, in the order it dialed them
WatcherConns == {c \in 1..Len(conns) : conns[c].by = "watch"}

ShellRequestsOn(c) ==
  LET sends == EventsOf(conns[c].log, "send")
  IN  {i \in 1..Len(sends) : sends[i][1] = "shell:"}

IsLookupRequest(req) == Len(req) >= 2 /\ req[1] = "shell:" /\ req[2] = "ps -f -A | grep '"

TransportEvents ==
  << Event("send", <<"host:">> \o getTransportDescriptor(descriptor)),
     Event("status", <<"OKAY">>) >>

\* a lookup that was sent, accepted, read to the end without error and closed
CompletedLookup(c) ==
  LET l == conns[c].log
  IN  /\ Len(l) = 6
      /\ SubSeq(l, 1, 2) = TransportEvents
      /\ l[3].ev = "send" /\ IsLookupRequest(l[3].data)
      /\ l[4] = Event("status", <<"OKAY">>)
      /\ l[5].ev = "read"
      /\ l[6] = Event("close", <<>>)

\* C16: the watcher dials at most two connections of its own; on the first
\* it sends only the lookup, and it dials the second, on which it sends only
\* `kill <pid>`, after the lookup completed without error with a non-empty
\* trimmed pid; it never uses the primary connection.
C16_WatcherSequence ==
  IsContext
    => /\ Cardinality(WatcherConns) <= 2
       /\ \A c \in WatcherConns :
            LET sends == EventsOf(conns[c].log, "send")
                first == \A d \in WatcherConns : c <= d
            IN  /\ Cardinality(ShellRequestsOn(c)) <= 1
                /\ Len(sends) >= 1 => sends[1] = <<"host:">> \o getTransportDescriptor(descriptor)
                /\ Len(sends) <= 2
                /\ (Len(sends) = 2 /\ first) => IsLookupRequest(sends[2])
                /\ ~first =>
                     \E d \in WatcherConns :
                       /\ d < c
                       /\ CompletedLookup(d)
                       /\ Len(TrimSpace(conns[d].log[5].data)) > 0
                       /\ Len(sends) = 2 =>
                            sends[2] = <<"shell:", "kill ">> \o TrimSpace(conns[d].log[5].data)
       /\ cn["watch"] # 0 => (cn["watch"] \in WatcherConns /\ cn["watch"] # cn["main"])
       /\ \A c \in 1..Len(conns) :
            conns[c].by = "main" =>
              /\ Len(EventsOf(conns[c].log, "send")) <= 2
              /\ \A i \in 1..Len(EventsOf(conns[c].log, "send")) :
                   ~IsLookupRequest(EventsOf(conns[c].log, "send")[i])
                   /\ EventsOf(conns[c].log, "send")[i] # KillRequest

C16_Witness ==
  /\ IsContext
  /\ Cardinality(WatcherConns) = 2
  /\ \E c \in WatcherConns :
       /\ Len(EventsOf(conns[c].log, "send")) = 2
       /\ EventsOf(conns[c].log, "send")[2] = KillRequest
  /\ pc["watch"] = "done"

\* the shell request of the call was sent on the primary connection
PrimarySent ==
  /\ cn["main"] # 0
  /\ Len(conns[cn["main"]].log) >= 3
  /\ SubSeq(conns[cn["main"]].log, 1, 3)
       = TransportEvents \o <<Event("send", ShellRequest(line["main"]))>>

\* ... and its status was read as success
PrimaryAccepted ==
  /\ PrimarySent
  /\ Len(conns[cn["main"]].log) >= 4
  /\ conns[cn["main"]].log[4] = Event("status", <<"OKAY">>)

Terminal == {"rcc_close_cmdDone", "rcc_close_conn", "done"}

C17_StateMachine ==
  IsContext
    => /\ WatcherStarted => PrimaryAccepted
       /\ WatcherConns # {} => PrimaryAccepted
       /\ pc["main"] \in {"rcc_read", "rcc_switch"} \cup (Terminal \ {"done"}) => PrimaryAccepted
       /\ (pc["main"] = "done" /\ ~PrimaryAccepted)
            => /\ ret.out = <<>>
               /\ ret.err # Nil
               /\ ~WatcherStarted
               /\ WatcherConns = {}
               /\ wlog = <<>>
       /\ pc["main"] \notin Terminal => ret = [out |-> <<>>, err |-> Nil]

\* C17: RunCommandContext starts its watcher only after the shell request
\* was sent and its status read as success; a call that fails in validation,
\* dial, send or status read returns empty output and an error, never has a
\* watcher and never sends a lookup or a kill, even when the context is done;
\* and a call settles its result once.
C17_OneOutcome ==
  /\ []C17_StateMachine
  /\ [][(IsContext /\ pc["main"] \in Terminal) => ret' = ret]_vars

C17_Witness ==
  /\ IsContext
  /\ pc["main"] = "done"
  /\ PrimarySent
  /\ ~PrimaryAccepted
  /\ ctx # "none"
  /\ ~WatcherStarted

\* RunCommand, called by the user, had its ReadUntilEof fail
RunCommandReadFailed ==
  /\ op = "RunCommand"
  /\ pc["main"] = "done"
  /\ cn["main"] # 0
  /\ Len(EventsOf(conns[cn["main"]].log, "readerr")) > 0

\* RunCommandContext had its ReadUntilEof fail while the context was not done
ContextReadFailed == ResultPicked /\ readErr # Nil /\ ctx = "none"

\* C18: when ReadUntilEof fails and the context is not done, RunCommand and
\* RunCommandContext return the bytes read up to the failure with an error
\* that is not nil and not the context's error.
C18_PartialOutputKept ==
  /\ RunCommandReadFailed
       => /\ ret.out = EventsOf(conns[cn["main"]].log, "readerr")[1]
          /\ ret.err # Nil
          /\ ret.err.kind \notin CtxKinds
  /\ ContextReadFailed
       => /\ ret.out = PrimaryRead
          /\ ret.out = emitted
          /\ ret.err = FmtErrorf("conn.ReadUntilEof err", readErr)
          /\ ret.err.kind \notin CtxKinds \cup {"nil"}

C18_Witness_RunCommand == RunCommandReadFailed /\ Len(ret.out) > 0
C18_Witness_Context == ContextReadFailed /\ Len(ret.out) > 0 /\ pc["main"] = "done"
C18_Witness == C18_Witness_RunCommand \/ C18_Witness_Context

BinaryOpcodes == {<<"STAT">>, <<"LIST">>, <<"RECV">>, <<"SEND">>}

SyncHandshake ==
  TransportEvents \o <<Event("send", <<"sync:">>), Event("status", <<"OKAY">>)>>

\* the positions of the log l at which binary sync traffic was written
BinarySends(l) == {i \in 1..Len(l) : l[i].ev = "send" /\ l[i].data \in BinaryOpcodes}

HandshakeDone(l) == Len(l) >= 4 /\ SubSeq(l, 1, 4) = SyncHandshake

\* C19: a sync operation has its sync connection, and writes binary sync
\* traffic, only after host:<transport-descriptor> was sent and answered
\* with success and then sync: was sent and answered with success, in that
\* order; when one of the four steps fails the operation returns an error
\* and no binary sync traffic is written.
C19_SyncHandshake ==
  op \in SyncOps
    => /\ Len(conns) <= 1
       /\ \A c \in 1..Len(conns) :
            BinarySends(conns[c].log) # {}
              => /\ HandshakeDone(conns[c].log)
                 /\ \A i \in BinarySends(conns[c].log) : i > 4
       /\ pc["main"] \in {"st_stat", "sy_transfer"}
            => (cn["main"] # 0 /\ conns[cn["main"]].log = SyncHandshake)
       /\ (pc["main"] = "done" /\ (cn["main"] = 0 \/ ~HandshakeDone(conns[cn["main"]].log)))
            => /\ ret.err # Nil
               /\ ret.out = <<>>
               /\ \A c \in 1..Len(conns) : BinarySends(conns[c].log) = {}
       /\ (pc["main"] = "done" /\ ret.err = Nil)
            => (cn["main"] # 0 /\ HandshakeDone(conns[cn["main"]].log)
                /\ BinarySends(conns[cn["main"]].log) # {})

C19_Witness ==
  /\ op \in SyncOps \ {"Stat"}
  /\ pc["main"] = "done"
  /\ cn["main"] # 0
  /\ Len(conns[cn["main"]].log) = 4
  /\ conns[cn["main"]].log[3] = Event("send", <<"sync:">>)
  /\ conns[cn["main"]].log[4] = Event("status", <<"FAIL">>)
  /\ ret.err # Nil

====
